---- MODULE Spec2Model ----
(***************************************************************************)
(* Model of the cutout daemon's scheduler, src/askap_cutout_daemon.py:     *)
(* produce_all_cutouts (the driver loop), register_active (pre-activation),*)
(* job_loop (the completion scan followed by the start scan),              *)
(* mark_comp_done (the release of a job's measurement sets) and run_os_cmd *)
(* (the launch of a job).                                                  *)
(*                                                                         *)
(* The two loops of job_loop are modelled one examined id per step, so     *)
(* that the state at the moment an id is examined is a state of the model. *)
(* The status folder is written outside the daemon: each os.path.isfile    *)
(* test may find any marker files, whatever an earlier test found.         *)
(***************************************************************************)
EXTENDS Integers, Sequences, FiniteSets, Bags, TLC

\* Bounds of the model.
MaxJobs == 2
MaxLimit == 2
MaxMin == 1
MaxLoops == 2
MaxPre == 2

\* Component names of the catalogue rows, in first-occurrence order.
CompNames == <<"A", "B", "C", "D", "E">>

\* The measurement sets (beam ids) a catalogue row can name.
Handles == {"m1", "m2"}

MarkerKinds == {"COMPLETED", "FAILED"}

VARIABLES
    targets,                \* list of unique component names; id k is targets[k]
    src_beam_map,           \* component name -> set of measurement sets
    concurrency_limit,
    min_concurrency_limit,
    max_loops,
    pre_active_jobs,        \* the --active ids, a list
    remaining_array_ids,    \* list of ids
    active_ms,              \* list used by append/remove only: a bag
    active_ids,             \* set of ids
    completed_srcs,         \* set of names
    failed_srcs,            \* set of names
    returned,               \* value of the last call of register_active or job_loop
    i,                      \* loop counter of produce_all_cutouts
    ids_to_scan,            \* job_loop's copy of remaining_array_ids
    pos,                    \* index of the id the current loop of job_loop examines
    status_files,           \* marker files of that id found by the latest test
    rate_limited,
    launched,               \* bag of ids run_os_cmd was called for
    cmd_outcome,            \* how the latest call of run_os_cmd ended
    notices,                \* rate limit notices printed by this call of job_loop
    pc

vars == <<targets, src_beam_map, concurrency_limit, min_concurrency_limit,
          max_loops, pre_active_jobs, remaining_array_ids, active_ms,
          active_ids, completed_srcs, failed_srcs, returned, i, ids_to_scan,
          pos, status_files, rate_limited, launched,
          cmd_outcome, notices, pc>>

inputs == <<targets, src_beam_map, concurrency_limit, min_concurrency_limit,
            max_loops, pre_active_jobs>>

sched == <<remaining_array_ids, active_ms, active_ids, completed_srcs,
           failed_srcs>>

Range(s) == {s[k] : k \in DOMAIN s}

\* Mutant of list_remove: the id is left in the list.
list_remove_nothing(s, x) == s

\* list.remove(x): drops the first occurrence of x.
RECURSIVE list_remove(_, _)
list_remove(s, x) ==
    IF s = <<>> THEN <<>>
    ELSE IF Head(s) = x THEN Tail(s)
    ELSE <<Head(s)>> \o list_remove(Tail(s), x)

\* targets[array_id-1]: Python indexes from 0, the sequence from 1.
comp_name_of(array_id) == targets[array_id]

tgt_ms_of(array_id) == src_beam_map[comp_name_of(array_id)]

\* Mutant of append_ms: nothing is appended.
append_ms_skipped(held, tgt_ms) == held

\* for ms in tgt_ms: active_ms.append(ms)
append_ms(held, tgt_ms) == held (+) SetToBag(tgt_ms)

\* The exceptions that end the run inside job_loop: line 176 (TypeError),
\* line 75 (CommandFailedError), line 77 (TypeError raised while the OSError
\* is reported) and line 130 (ValueError).
Aborted == {"TypeError", "CommandFailedError", "TypeError_in_run_os_cmd",
            "ValueError"}

Terminal == Aborted \cup {"Done", "Exhausted", "ZeroDivisionError"}

----------------------------------------------------------------------------
\* Mutant of range_list: the ids are listed from the highest down.
range_list_descending(n) == [k \in 1..n |-> n + 1 - k]

\* Line 202: list(range(1, n+1)).
range_list(n) == [k \in 1..n |-> k]

\* produce_all_cutouts, lines 202-209: the state before pre-activation.
Start ==
    /\ remaining_array_ids = range_list(Len(targets))
    /\ active_ms = EmptyBag
    /\ active_ids = {}
    /\ completed_srcs = {}
    /\ failed_srcs = {}
    /\ returned = 0
    /\ i = 0
    /\ ids_to_scan = <<>>
    /\ pos = 1
    /\ status_files = {}
    /\ rate_limited = FALSE
    /\ launched = EmptyBag
    /\ cmd_outcome = "none"
    /\ notices = 0
    /\ pc = "register_active"

\* The lists of k ids out of 1..n in ascending order, repeats included:
\* register_active appends and adds per id, so the order of the list does
\* not change the state it leaves.
ascending(k, n) ==
    {ids \in [1..k -> 1..n] : \A a, b \in 1..k : a < b => ids[a] <= ids[b]}

\* The arguments of produce_all_cutouts, lines 200-201: a catalogue of up to
\* MaxJobs components, each with at least one measurement set (build_map),
\* the limits, and a list of pre-active ids of the catalogue.
Init ==
    /\ \E n \in 0..MaxJobs : targets = SubSeq(CompNames, 1, n)
    /\ src_beam_map \in [Range(targets) -> (SUBSET Handles) \ {{}}]
    /\ concurrency_limit \in 1..MaxLimit
    /\ min_concurrency_limit \in 0..MaxMin
    /\ max_loops \in 0..MaxLoops
    /\ pre_active_jobs \in UNION {ascending(k, Len(targets)) : k \in 0..MaxPre}
    /\ Start

\* The bag of measurement sets appended for the ids of a list, in list order.
RECURSIVE ms_of_list(_)
ms_of_list(ids) ==
    IF ids = <<>> THEN EmptyBag
    ELSE append_ms(ms_of_list(Tail(ids)), tgt_ms_of(Head(ids)))

\* register_active, lines 110-124, called at line 211.
register_active ==
    /\ pc = "register_active"
    /\ active_ms' = active_ms (+) ms_of_list(pre_active_jobs)
    /\ active_ids' = active_ids \cup Range(pre_active_jobs)
    /\ returned' = IF pre_active_jobs = <<>> THEN 0 ELSE Cardinality(active_ids')
    /\ pc' = "while"
    /\ UNCHANGED <<inputs, status_files, remaining_array_ids, completed_srcs,
                   failed_srcs, i, ids_to_scan, pos, rate_limited, launched,
                   cmd_outcome, notices>>

----------------------------------------------------------------------------
\* Mutant of loop_continues: the cap is compared with <= instead of <.
loop_continues_once_more == Len(remaining_array_ids) > 0 /\ i <= max_loops

\* Line 213: the condition of the driver's while loop.
loop_continues == Len(remaining_array_ids) > 0 /\ i < max_loops

\* Lines 213-214, then job_loop's entry, lines 135-137.
loop_enter ==
    /\ pc = "while"
    /\ loop_continues
    /\ i' = i + 1
    /\ rate_limited' = FALSE
    /\ notices' = 0
    /\ ids_to_scan' = remaining_array_ids
    /\ pos' = 1
    /\ pc' = "scan_completed"
    /\ status_files' \in SUBSET MarkerKinds
    /\ UNCHANGED <<inputs, sched, returned, launched, cmd_outcome>>

\* Lines 224-231: the exception when ids remain, else the report, which
\* divides the accumulated concurrency by i.
loop_exit ==
    /\ pc = "while"
    /\ ~loop_continues
    /\ pc' = IF Len(remaining_array_ids) > 0 THEN "Exhausted"
             ELSE IF i = 0 THEN "ZeroDivisionError"
             ELSE "Done"
    /\ UNCHANGED <<inputs, status_files, sched, returned, i,
                   ids_to_scan, pos, rate_limited, launched,
                   cmd_outcome, notices>>

----------------------------------------------------------------------------
\* Mutant of remove_ms: each measurement set is removed twice.
remove_ms_twice(held, tgt_ms) == (held (-) SetToBag(tgt_ms)) (-) SetToBag(tgt_ms)

\* mark_comp_done, lines 129-130: active_ms.remove(ms) for each ms of tgt_ms.
remove_ms(held, tgt_ms) == held (-) SetToBag(tgt_ms)

\* list.remove raises ValueError when the list holds no occurrence.
remove_raises(held, tgt_ms) == ~(SetToBag(tgt_ms) \sqsubseteq held)

\* The `continue` of the first loop of job_loop: the next id of the copy,
\* or the second loop (line 166) when the copy is exhausted.
next_to_scan ==
    IF pos < Len(ids_to_scan)
    THEN pos' = pos + 1 /\ pc' = "scan_completed"
    ELSE pos' = 1 /\ pc' = "scan_start"

\* The marker files the next os.path.isfile test can find for the id it
\* tests: any, while the first loop goes on; after its last test no file is
\* read, and what that test found stays until job_loop returns.
folder_at_next_test ==
    IF pc' \in {"scan_completed", "scan_failed"}
    THEN SUBSET MarkerKinds
    ELSE {status_files}

\* Mutant of in_active: the marker branches release without the test.
in_active_assumed(array_id) == TRUE

\* Lines 146 and 156: if array_id in active_ids.
in_active(array_id) == array_id \in active_ids

\* Lines 146-153 (kind COMPLETED) and 156-163 (kind FAILED): the marker of
\* array_id was found.
marker_found(array_id, kind) ==
    LET comp_name == comp_name_of(array_id)
        tgt_ms == tgt_ms_of(array_id)
    IN  IF in_active(array_id) /\ remove_raises(active_ms, tgt_ms)
        THEN /\ pc' = "ValueError"
             /\ active_ids' = active_ids \ {array_id}
             /\ active_ms' \in {remove_ms(active_ms, S) :
                                  S \in (SUBSET tgt_ms) \ {tgt_ms}}
             /\ UNCHANGED <<remaining_array_ids, completed_srcs, failed_srcs, pos>>
        ELSE /\ IF in_active(array_id)
                THEN /\ active_ids' = active_ids \ {array_id}
                     /\ active_ms' = remove_ms(active_ms, tgt_ms)
                ELSE UNCHANGED <<active_ids, active_ms>>
             /\ completed_srcs' = IF kind = "COMPLETED"
                                  THEN completed_srcs \cup {comp_name}
                                  ELSE completed_srcs
             /\ failed_srcs' = IF kind = "FAILED"
                               THEN failed_srcs \cup {comp_name}
                               ELSE failed_srcs
             /\ remaining_array_ids' = list_remove(remaining_array_ids, array_id)
             /\ next_to_scan

\* Mutant of scan_completed: the FAILED marker is tested before the
\* COMPLETED one.
scan_failed_first ==
    /\ pc = "scan_completed"
    /\ LET array_id == ids_to_scan[pos]
           comp_name == comp_name_of(array_id)
       IN  IF comp_name \in completed_srcs \/ comp_name \in failed_srcs
           THEN next_to_scan /\ UNCHANGED sched
           ELSE IF "FAILED" \in status_files
           THEN marker_found(array_id, "FAILED")
           ELSE IF "COMPLETED" \in status_files
           THEN marker_found(array_id, "COMPLETED")
           ELSE pc' = "scan_failed" /\ UNCHANGED <<sched, pos>>
    /\ status_files' \in folder_at_next_test
    /\ UNCHANGED <<inputs, returned, i, ids_to_scan, rate_limited, launched,
                   cmd_outcome, notices>>

\* Lines 139-153: one id of the first loop, up to the COMPLETED test of
\* line 144. files are the marker files of the id in the status folder at
\* the test.
scan_completed ==
    /\ pc = "scan_completed"
    /\ LET array_id == ids_to_scan[pos]
           comp_name == comp_name_of(array_id)
       IN  IF comp_name \in completed_srcs \/ comp_name \in failed_srcs
           THEN next_to_scan /\ UNCHANGED sched
           ELSE IF "COMPLETED" \in status_files
           THEN marker_found(array_id, "COMPLETED")
           ELSE pc' = "scan_failed" /\ UNCHANGED <<sched, pos>>
    /\ status_files' \in folder_at_next_test
    /\ UNCHANGED <<inputs, returned, i, ids_to_scan, rate_limited, launched,
                   cmd_outcome, notices>>

\* Mutant of scan_failed: the FAILED marker is not looked at.
scan_failed_ignored ==
    /\ pc = "scan_failed"
    /\ next_to_scan
    /\ status_files' \in folder_at_next_test
    /\ UNCHANGED <<inputs, sched, returned, i, ids_to_scan, rate_limited,
                   launched, cmd_outcome, notices>>

\* Lines 155-163: the FAILED test of the same id.
scan_failed ==
    /\ pc = "scan_failed"
    /\ IF "FAILED" \in status_files
       THEN marker_found(ids_to_scan[pos], "FAILED")
       ELSE next_to_scan /\ UNCHANGED sched
    /\ status_files' \in folder_at_next_test
    /\ UNCHANGED <<inputs, returned, i, ids_to_scan, rate_limited, launched,
                   cmd_outcome, notices>>

----------------------------------------------------------------------------
\* Line 176, right operand: tgt_ms & active_ms. tgt_ms is a set (line 103)
\* and active_ms a list (line 203); set.__and__ rejects a list operand and
\* list has no __rand__, so evaluating the expression raises TypeError.
set_and_list(tgt_ms, held) == "TypeError"

\* Mutant of ms_conflict: the conflict test is left out.
ms_conflict_ignored(n_active, tgt_ms, held) == "False"

\* Mutant of ms_conflict: the floor is forgotten and any shared measurement
\* set defers the job.
ms_conflict_everywhere(n_active, tgt_ms, held) ==
    IF tgt_ms \cap BagToSet(held) # {} THEN "True" ELSE "False"

\* Mutant of ms_conflict: the floor is compared with >= instead of >.
ms_conflict_at_floor(n_active, tgt_ms, held) ==
    IF n_active >= min_concurrency_limit
    THEN "TypeError"
    ELSE "False"

\* Line 176: len(active_ids) > min_concurrency_limit and tgt_ms & active_ms.
\* The `and` evaluates its right operand only when the left one is true.
ms_conflict(n_active, tgt_ms, held) ==
    IF n_active > min_concurrency_limit
    THEN set_and_list(tgt_ms, held)
    ELSE "False"

\* Line 179.
below_limit(n_active) == n_active < concurrency_limit

\* Mutant of already_active: the second loop does not look at active_ids.
already_active_ignored(array_id) == FALSE

\* Line 167: if array_id in active_ids.
already_active(array_id) == array_id \in active_ids

\* Mutant of notice_due: the notice is printed for every id skipped.
notice_always(flag) == TRUE

\* Line 194: elif not rate_limited.
notice_due(flag) == ~flag

\* Mutant of run_os_cmd: the call made with failOnErr=False, which reports
\* the failure and returns.
run_os_cmd_tolerant(outcome) ==
    /\ cmd_outcome' = outcome
    /\ pos' = pos + 1
    /\ pc' = pc

\* run_os_cmd, lines 60-81, as called with failOnErr=True: return code 0
\* returns; a non-zero code raises CommandFailedError (line 75); an OSError
\* reaches line 77, where "..." + e, a str and an exception, raises TypeError.
run_os_cmd(outcome) ==
    /\ cmd_outcome' = outcome
    /\ IF outcome = "zero" THEN pos' = pos + 1 /\ pc' = pc
       ELSE IF outcome = "non-zero" THEN pos' = pos /\ pc' = "CommandFailedError"
       ELSE pos' = pos /\ pc' = "TypeError_in_run_os_cmd"

\* Lines 166-196: one id of the second loop of job_loop.
scan_start ==
    /\ pc = "scan_start"
    /\ pos <= Len(remaining_array_ids)
    /\ LET array_id == remaining_array_ids[pos]
           comp_name == comp_name_of(array_id)
           tgt_ms == tgt_ms_of(array_id)
           conflict == ms_conflict(Cardinality(active_ids), tgt_ms, active_ms)
       IN  IF already_active(array_id) \/ comp_name \in completed_srcs
           THEN /\ pos' = pos + 1
                /\ UNCHANGED <<active_ms, active_ids, rate_limited, launched,
                             cmd_outcome, notices, pc>>
           ELSE IF conflict = "TypeError"
           THEN /\ pc' = "TypeError"
                /\ UNCHANGED <<active_ms, active_ids, rate_limited, launched,
                             cmd_outcome, notices, pos>>
           ELSE IF conflict = "True"
           THEN /\ pos' = pos + 1
                /\ UNCHANGED <<active_ms, active_ids, rate_limited, launched,
                             cmd_outcome, notices, pc>>
           ELSE IF below_limit(Cardinality(active_ids))
           THEN /\ rate_limited' = FALSE
                /\ active_ms' = append_ms(active_ms, tgt_ms)
                /\ active_ids' = active_ids \cup {array_id}
                /\ launched' = launched (+) SetToBag({array_id})
                /\ notices' = notices
                /\ \E outcome \in {"zero", "non-zero", "OSError"} :
                       run_os_cmd(outcome)
           ELSE /\ rate_limited' = TRUE
                /\ pos' = pos + 1
                /\ notices' = IF notice_due(rate_limited) THEN notices + 1
                             ELSE notices
                /\ UNCHANGED <<active_ms, active_ids, launched, cmd_outcome, pc>>
    /\ UNCHANGED <<inputs, status_files, remaining_array_ids, completed_srcs,
                   failed_srcs, returned, i, ids_to_scan>>

\* Line 197 and lines 218-222: job_loop returns len(active_ids); the driver
\* adds it to the total it reports at the end, and sleeps. The locals of
\* job_loop (ids_to_scan, the loop index, the test results, rate_limited)
\* and the count of what it printed end with the call.
job_loop_return ==
    /\ pc = "scan_start"
    /\ pos > Len(remaining_array_ids)
    /\ returned' = Cardinality(active_ids)
    /\ ids_to_scan' = <<>>
    /\ pos' = 1
    /\ rate_limited' = FALSE
    /\ notices' = 0
    /\ status_files' = {}
    /\ pc' = "while"
    /\ UNCHANGED <<inputs, sched, i, launched, cmd_outcome>>

Next ==
    \/ register_active
    \/ loop_enter
    \/ loop_exit
    \/ scan_completed
    \/ scan_failed
    \/ scan_start
    \/ job_loop_return

Spec == Init /\ [][Next]_vars

\* The scenario of the specification: jobs A{m1}, B{m1}, C{m2} in that id
\* order, concurrency_limit 3, min_concurrency_limit 1, no pre-activation.
Scenario ==
    /\ targets = <<"A", "B", "C">>
    /\ src_beam_map = [n \in {"A", "B", "C"} |->
                          IF n = "C" THEN {"m2"} ELSE {"m1"}]
    /\ concurrency_limit = 3
    /\ min_concurrency_limit = 1
    /\ pre_active_jobs = <<>>

\* produce_all_cutouts called with the arguments of the scenario.
InitScenario ==
    /\ Scenario
    /\ max_loops \in 0..MaxLoops
    /\ Start

SpecScenario == InitScenario /\ [][Next]_vars

\* produce_all_cutouts called with a catalogue of three components, each
\* with a single measurement set: the shortest catalogue with two queued
\* ids next to an active one.
InitQueue ==
    /\ targets = <<"A", "B", "C">>
    /\ src_beam_map \in [Range(targets) -> {{ms} : ms \in Handles}]
    /\ concurrency_limit \in 1..MaxLimit
    /\ min_concurrency_limit \in 0..MaxMin
    /\ max_loops \in 0..MaxLoops
    /\ pre_active_jobs \in UNION {ascending(k, Len(targets)) : k \in 0..MaxPre}
    /\ Start

SpecQueue == InitQueue /\ [][Next]_vars

----------------------------------------------------------------------------
\* Helpers of the properties.

JobIds == 1..Len(targets)

\* The bag holding each measurement set once per job of ids that uses it.
RECURSIVE ms_of_set(_)
ms_of_set(ids) ==
    IF ids = {} THEN EmptyBag
    ELSE LET x == CHOOSE y \in ids : TRUE
         IN  SetToBag(tgt_ms_of(x)) (+) ms_of_set(ids \ {x})

\* The measurement sets held at least once.
held_set == BagToSet(active_ms)

\* The second loop of job_loop is about to examine a queued id that is not
\* active and whose name is not completed.
Examining ==
    /\ pc = "scan_start"
    /\ pos <= Len(remaining_array_ids)
    /\ remaining_array_ids[pos] \notin active_ids
    /\ comp_name_of(remaining_array_ids[pos]) \notin completed_srcs

\* The first loop of job_loop is at a test that finds a marker of
\* ids_to_scan[pos]: its next step is the marker branch of that id.
MarkerSeen ==
    \/ /\ pc = "scan_completed"
       /\ comp_name_of(ids_to_scan[pos]) \notin completed_srcs \cup failed_srcs
       /\ "COMPLETED" \in status_files
    \/ /\ pc = "scan_failed"
       /\ "FAILED" \in status_files

----------------------------------------------------------------------------
\* C1: at every observation point (after register_active and after every
\* job_loop cycle) the number of active ids is at most concurrency_limit.
\* register_active adds every pre-active id without looking at the limit.
C1_ActiveWithinLimit ==
    pc = "while" => Cardinality(active_ids) <= concurrency_limit

\* C2: after pre-activation, active_ms holds each measurement set exactly
\* once per active job that uses it. register_active appends the measurement
\* sets of an id listed twice a second time, while the set active_ids keeps
\* the id once.
C2_HeldIsUnionOfActive ==
    pc # "register_active" => active_ms = ms_of_set(active_ids)

\* C3: a step that makes an id active while the number of active jobs is
\* above min_concurrency_limit and the id's measurement sets intersect the
\* held ones is a step of register_active; the second loop of job_loop
\* never admits such an id.
C3_NoCollidingAdmissionAboveFloor ==
    [][\A id \in active_ids' \ active_ids :
          \/ pc = "register_active"
          \/ Cardinality(active_ids) <= min_concurrency_limit
          \/ tgt_ms_of(id) \cap held_set = {}]_vars

\* C3 witness: a queued id whose measurement sets are held was examined
\* above the floor, and is not active.
C3_Witness ==
    /\ pc = "TypeError"
    /\ remaining_array_ids[pos] \notin active_ids
    /\ Cardinality(active_ids) > min_concurrency_limit
    /\ tgt_ms_of(remaining_array_ids[pos]) \cap held_set # {}

\* C4: floor guarantee. An id examined by the second loop while the number
\* of active jobs is at most min_concurrency_limit and below
\* concurrency_limit is made active by that step, whether or not its
\* measurement sets are held.
C4_FloorGuarantee ==
    [][(/\ Examining
        /\ Cardinality(active_ids) <= min_concurrency_limit
        /\ Cardinality(active_ids) < concurrency_limit)
       => /\ remaining_array_ids[pos] \in active_ids'
          /\ active_ms' = active_ms (+) SetToBag(tgt_ms_of(remaining_array_ids[pos]))]_vars

\* C4 witness: the id examined last was started at the floor although one
\* of its measurement sets was already held.
C4_Witness ==
    /\ pc = "scan_start"
    /\ pos > 1
    /\ LET id == remaining_array_ids[pos - 1]
       IN  /\ id \in active_ids
           /\ CopiesIn(id, launched) = 1
           /\ Cardinality(active_ids \ {id}) <= min_concurrency_limit
           /\ Cardinality(active_ids \ {id}) = Cardinality(active_ids) - 1
           /\ \E ms \in tgt_ms_of(id) : CopiesIn(ms, active_ms) >= 2

\* The four states of a job id.
NotStarted(id) == id \in Range(remaining_array_ids) /\ id \notin active_ids

Active(id) == id \in Range(remaining_array_ids) /\ id \in active_ids

Completed(id) == comp_name_of(id) \in completed_srcs

Failed(id) == comp_name_of(id) \in failed_srcs

\* The number of the four states that job id is in.
StateCount(id) ==
    (IF NotStarted(id) THEN 1 ELSE 0) + (IF Active(id) THEN 1 ELSE 0)
    + (IF Completed(id) THEN 1 ELSE 0) + (IF Failed(id) THEN 1 ELSE 0)

C5_ExactlyOneState ==
    /\ \A id \in JobIds : StateCount(id) = 1
    /\ active_ids \subseteq Range(remaining_array_ids)

C5_Step ==
    \A id \in JobIds :
        /\ (id \in Range(remaining_array_ids) /\ id \notin Range(remaining_array_ids'))
           => (MarkerSeen /\ id = ids_to_scan[pos])
        /\ (Completed(id) \/ Failed(id))
           => /\ id \notin active_ids'
              /\ CopiesIn(id, launched') = CopiesIn(id, launched)

\* C5: every job id is in exactly one of the states not started, active,
\* completed, failed; an id leaves remaining_array_ids only in the step of
\* the first loop that finds its marker; a completed or failed id is never
\* made active or started afterwards.
C5_JobStates == []C5_ExactlyOneState /\ [][C5_Step]_vars

\* C5 witness: after two cycles one started job is completed or failed and
\* another started job is active.
C5_Witness ==
    /\ pc = "while"
    /\ i = 2
    /\ \E id \in JobIds :
          (Completed(id) \/ Failed(id)) /\ CopiesIn(id, launched) = 1
    /\ \E id \in JobIds : Active(id) /\ CopiesIn(id, launched) = 1

\* No marker was found so far.
NoMarkers == completed_srcs = {} /\ failed_srcs = {}

\* The only marker found so far is the COMPLETED one of A, found after A
\* was started.
OnlyACompleted ==
    /\ completed_srcs = {"A"}
    /\ failed_srcs = {}
    /\ CopiesIn(1, launched) = 1

C7_EmptyCatalogDone ==
    (targets = <<>> /\ pc \in Terminal) => (pc = "Done" /\ i = 0)

C8_Bounded ==
    /\ i <= max_loops
    /\ pc = "Done" => remaining_array_ids = <<>>
    /\ pc = "Exhausted" => (remaining_array_ids # <<>> /\ i = max_loops)
    /\ pc \in {"scan_completed", "scan_failed"} => pos <= Len(ids_to_scan)
    /\ pc = "scan_start" => pos <= Len(remaining_array_ids) + 1

C8_Step ==
    (pc = "while" /\ i = max_loops /\ remaining_array_ids # <<>>)
        => pc' = "Exhausted"

\* C8: the driver runs at most max_loops cycles, each of at most one step
\* per listed id; with ids remaining after cycle max_loops the run ends
\* Exhausted, and it ends Done only with remaining_array_ids empty.
C8_LoopCap == [][C8_Bounded /\ C8_Bounded' /\ C8_Step]_vars

\* C8 witness: the run is Exhausted after the last of two or more cycles.
C8_Witness ==
    /\ pc = "Exhausted"
    /\ i = max_loops
    /\ i >= 2

\* C9: the step that finds a marker of an active id removes the id from
\* active_ids and one occurrence of each of its measurement sets from
\* active_ms, and nothing else; the measurement sets of the jobs still active
\* stay, and the removal does not raise.
C9_Release ==
    [][(MarkerSeen /\ ids_to_scan[pos] \in active_ids) =>
          /\ pc' # "ValueError"
          /\ active_ids' = active_ids \ {ids_to_scan[pos]}
          /\ \A ms \in Handles :
                CopiesIn(ms, active_ms') = CopiesIn(ms, active_ms) -
                    (IF ms \in tgt_ms_of(ids_to_scan[pos]) THEN 1 ELSE 0)
          /\ ms_of_set(active_ids') \sqsubseteq active_ms']_vars

\* C9 witness: a started job was retired while a job still active holds one
\* of its measurement sets.
C9_Witness ==
    /\ pre_active_jobs = <<>>
    /\ \E id \in JobIds :
          /\ Completed(id) \/ Failed(id)
          /\ CopiesIn(id, launched) = 1
          /\ tgt_ms_of(id) \cap held_set # {}

C10_Step ==
    /\ (MarkerSeen /\ ids_to_scan[pos] \notin active_ids) =>
          /\ active_ids' = active_ids
          /\ active_ms' = active_ms
          /\ ids_to_scan[pos] \in Range(remaining_array_ids)
          /\ ids_to_scan[pos] \notin Range(remaining_array_ids')
          /\ IF pc = "scan_completed"
             THEN /\ completed_srcs' = completed_srcs \cup {comp_name_of(ids_to_scan[pos])}
                  /\ failed_srcs' = failed_srcs
             ELSE /\ failed_srcs' = failed_srcs \cup {comp_name_of(ids_to_scan[pos])}
                  /\ completed_srcs' = completed_srcs
    /\ \A id \in JobIds : (Completed(id) \/ Failed(id)) =>
          /\ pc \in {"scan_completed", "scan_failed"} => ids_to_scan[pos] # id
          /\ Completed(id)' = Completed(id)
          /\ Failed(id)' = Failed(id)
          /\ id \notin Range(remaining_array_ids')
          /\ id \notin active_ids'
          /\ CopiesIn(id, launched') = CopiesIn(id, launched)

\* C10: the step that finds a marker of an id that is queued but not active
\* leaves active_ids and active_ms unchanged, records the name as completed
\* (COMPLETED) or failed (FAILED) and removes the id from
\* remaining_array_ids; a retired id is never examined again, so its marker
\* files change nothing afterwards.
C10_LateMarker == [][C10_Step]_vars

\* C10 witness: a job that was never active is retired while one of its
\* measurement sets is held by an active job.
C10_Witness ==
    \E id \in JobIds :
        /\ Completed(id) \/ Failed(id)
        /\ CopiesIn(id, launched) = 0
        /\ id \notin Range(pre_active_jobs)
        /\ tgt_ms_of(id) \cap held_set # {}

----------------------------------------------------------------------------
\* The measurement sets of the ids at two different places of the list are
\* disjoint.
PairwiseDisjoint(ids) ==
    \A a, b \in DOMAIN ids :
        a # b => tgt_ms_of(ids[a]) \cap tgt_ms_of(ids[b]) = {}

\* The sum of the sizes of the measurement sets of the ids of a list.
RECURSIVE SumOfSizes(_)
SumOfSizes(ids) ==
    IF ids = <<>> THEN 0
    ELSE Cardinality(tgt_ms_of(Head(ids))) + SumOfSizes(Tail(ids))

\* C11: register_active, given a list of n pre-active ids whose measurement
\* sets are pairwise disjoint, adds exactly n to the number of active ids
\* and the sum of the sizes of their measurement sets to the length of
\* active_ms, whatever the limits are, starts no job, raises nothing and
\* returns the resulting number of active ids.
C11_RegisterActive ==
    [][(pc = "register_active" /\ PairwiseDisjoint(pre_active_jobs)) =>
          /\ Cardinality(active_ids') =
                Cardinality(active_ids) + Len(pre_active_jobs)
          /\ BagCardinality(active_ms') =
                BagCardinality(active_ms) + SumOfSizes(pre_active_jobs)
          /\ launched' = launched
          /\ remaining_array_ids' = remaining_array_ids
          /\ returned' = Cardinality(active_ids')
          /\ pc' = "while"]_vars

\* C11 witness: two ids with disjoint measurement sets were pre-activated
\* with a concurrency_limit of 1.
C11_Witness ==
    /\ pc = "while"
    /\ i = 0
    /\ Len(pre_active_jobs) = 2
    /\ PairwiseDisjoint(pre_active_jobs)
    /\ concurrency_limit = 1
    /\ returned = 2
    /\ Cardinality(active_ids) = 2

----------------------------------------------------------------------------
\* The ids retired by the first loop of the current call of job_loop.
RetiredThisCycle == Range(ids_to_scan) \ Range(remaining_array_ids)

\* Job id held its measurement sets: it was started or pre-activated.
WasActive(id) == CopiesIn(id, launched) > 0 \/ id \in Range(pre_active_jobs)

\* C12: within one call of job_loop the second loop releases nothing, and a
\* queued id examined above min_concurrency_limit and below
\* concurrency_limit, none of whose measurement sets is held any more
\* because the job that held them was retired by the first loop of the same
\* call, is made active by that step. The step raises TypeError at line 176
\* instead.
C12_ReleaseThenAdmit ==
    [][/\ pc = "scan_start" =>
             (active_ids \subseteq active_ids' /\ active_ms \sqsubseteq active_ms')
       /\ (/\ Examining
           /\ Cardinality(active_ids) > min_concurrency_limit
           /\ Cardinality(active_ids) < concurrency_limit
           /\ tgt_ms_of(remaining_array_ids[pos]) \cap held_set = {}
           /\ \E r \in RetiredThisCycle :
                 /\ WasActive(r)
                 /\ tgt_ms_of(r) \cap tgt_ms_of(remaining_array_ids[pos]) # {})
          => remaining_array_ids[pos] \in active_ids']_vars

----------------------------------------------------------------------------
\* C13: progress, in the form a finite run refutes. While ids remain, the
\* run stops only because the cycle cap is reached (Exhausted) or because
\* the launch of a job failed; in every other state with ids remaining the
\* daemon can take a step, so that, markers appearing for the active jobs,
\* the queue keeps moving until it is empty. The run stops at line 176
\* with ids remaining as soon as a queued id is examined above
\* min_concurrency_limit.
C13_Progress ==
    (/\ remaining_array_ids # <<>>
     /\ pc \notin {"Exhausted", "CommandFailedError", "TypeError_in_run_os_cmd"})
        => ENABLED Next

----------------------------------------------------------------------------
\* The launch of a job failed: the command returned non-zero or could not be
\* started.
LaunchFailed(outcome) == outcome \in {"non-zero", "OSError"}

\* C14: the step whose call of run_os_cmd fails ends the run with an
\* exception, and after a failed launch the daemon takes no step at all: no
\* later id of the scan is admitted, no further cycle runs and the launch is
\* not repeated.
C14_LaunchFailureIsFatal ==
    [][/\ ~LaunchFailed(cmd_outcome)
       /\ (launched' # launched /\ LaunchFailed(cmd_outcome')) =>
             pc' \in {"CommandFailedError", "TypeError_in_run_os_cmd"}]_vars

\* C14 witness: the run has ended on a launch that returned non-zero, with
\* the failed id started once, a later id of the scan not yet examined and
\* cycles left.
C14_Witness ==
    /\ pc = "CommandFailedError"
    /\ cmd_outcome = "non-zero"
    /\ CopiesIn(remaining_array_ids[pos], launched) = 1
    /\ pos < Len(remaining_array_ids)
    /\ remaining_array_ids[pos + 1] \notin active_ids
    /\ i < max_loops

----------------------------------------------------------------------------
\* The FAILED test of ids_to_scan[pos] finds the marker.
FailedSeen == pc = "scan_failed" /\ "FAILED" \in status_files

C15_Step ==
    /\ FailedSeen =>
          /\ failed_srcs' = failed_srcs \cup {comp_name_of(ids_to_scan[pos])}
          /\ completed_srcs' = completed_srcs
          /\ ids_to_scan[pos] \in Range(remaining_array_ids)
          /\ Range(remaining_array_ids') =
                Range(remaining_array_ids) \ {ids_to_scan[pos]}
          /\ ids_to_scan[pos] \notin active_ids'
          /\ pc' \in {"scan_completed", "scan_start"}
    /\ \A id \in JobIds :
          Failed(id) => CopiesIn(id, launched') = CopiesIn(id, launched)
    /\ (remaining_array_ids = <<>> /\ failed_srcs # {}) =>
          pc' \in {"scan_start", "while", "Done"}

\* C15: the step that finds a FAILED marker adds the name to failed_srcs and
\* removes the id from remaining_array_ids, as for a completed job, and
\* raises nothing; a failed job is never started again; once every job is
\* completed or failed, with at least one failed, the run goes on to end
\* Done and ends in no other way.
C15_FailedIsNotFatal ==
    /\ [][C15_Step]_vars
    /\ [](remaining_array_ids = <<>> /\ failed_srcs # {} =>
            pc \in {"scan_start", "while", "Done"})

\* C15 witness: the run ended Done with both of two jobs failed, one of them
\* after it was started.
C15_Witness ==
    /\ pc = "Done"
    /\ Len(targets) = 2
    /\ failed_srcs = Range(targets)
    /\ completed_srcs = {}
    /\ \E id \in JobIds : CopiesIn(id, launched) = 1

----------------------------------------------------------------------------
\* The queued ids that are neither active nor completed: at the end of the
\* second loop, the ids it skipped.
Skipped ==
    {id \in Range(remaining_array_ids) :
        id \notin active_ids /\ comp_name_of(id) \notin completed_srcs}

\* C16: one call of job_loop prints the rate limit notice at most once.
C16_OneNotice == notices <= 1

\* C16 witness: the second loop of the first cycle has started a job, which
\* reset the flag, and then skipped two ids for lack of capacity, printing
\* one notice.
C16_Witness ==
    /\ pc = "scan_start"
    /\ pos > Len(remaining_array_ids)
    /\ i = 1
    /\ pre_active_jobs = <<>>
    /\ launched # EmptyBag
    /\ Cardinality(Skipped) >= 2
    /\ rate_limited
    /\ notices = 1

----------------------------------------------------------------------------
\* C17: the step of the second loop that examines a queued id above
\* min_concurrency_limit, one of whose measurement sets is held, changes
\* neither remaining_array_ids, active_ids nor active_ms, starts nothing and
\* goes on with the next id of the scan, so that the id, still queued, is
\* examined again by the next cycle. The step raises TypeError at line 176
\* instead and the run ends.
C17_ConflictSkips ==
    [][(/\ Examining
        /\ Cardinality(active_ids) > min_concurrency_limit
        /\ tgt_ms_of(remaining_array_ids[pos]) \cap held_set # {})
       => /\ UNCHANGED <<remaining_array_ids, active_ids, active_ms, launched>>
          /\ pc' = "scan_start"
          /\ pos' = pos + 1]_vars

----------------------------------------------------------------------------
\* The list is in strictly ascending order.
Ascending(s) == \A a, b \in DOMAIN s : a < b => s[a] < s[b]

C18_Step ==
    pc = "scan_start" =>
        /\ pc' = "scan_start" => pos' = pos + 1
        /\ remaining_array_ids' = remaining_array_ids
        /\ rate_limited => active_ids' = active_ids
        /\ \A x \in active_ids' \ active_ids :
              /\ x = remaining_array_ids[pos]
              /\ \A y \in Skipped : y >= x

\* C18: remaining_array_ids is in ascending id order, the second loop of
\* job_loop examines it from its first to its last entry without changing
\* it, after an id was skipped for lack of capacity no id is made active by
\* the same scan, and when an id is made active every lower queued id is
\* already active: a free slot goes to the lowest id that waits for one.
C18_AscendingOrder ==
    /\ [](Ascending(remaining_array_ids) /\ Ascending(ids_to_scan))
    /\ [][C18_Step]_vars

\* C18 witness: with one slot and two queued jobs that share no measurement
\* set, the first scan has started id 1 and skipped id 2 for lack of
\* capacity.
C18_Witness ==
    /\ pc = "scan_start"
    /\ pos > Len(remaining_array_ids)
    /\ i = 1
    /\ pre_active_jobs = <<>>
    /\ Len(targets) = 2
    /\ tgt_ms_of(1) \cap tgt_ms_of(2) = {}
    /\ concurrency_limit = 1
    /\ active_ids = {1}
    /\ launched = SetToBag({1})
    /\ Skipped = {2}
    /\ rate_limited

----------------------------------------------------------------------------
C19_AtMostOnce ==
    \A id \in JobIds :
        /\ CopiesIn(id, launched) <= 1
        /\ id \in Range(pre_active_jobs) => CopiesIn(id, launched) = 0
        /\ CopiesIn(id, launched) = 1 => (Active(id) \/ Completed(id) \/ Failed(id))

C19_Step ==
    \A id \in JobIds :
        CopiesIn(id, launched') # CopiesIn(id, launched) =>
            /\ CopiesIn(id, launched') = 1
            /\ id \notin active_ids
            /\ id \in Range(remaining_array_ids)
            /\ ~Completed(id)
            /\ ~Failed(id)

\* C19: run_os_cmd is called at most once per job id over a run: never for a
\* pre-activated id, only for a queued id that is not active and not
\* retired, and so never for an id whose marker was found before it was
\* started nor again once the id is started or retired.
C19_LaunchedOnce == []C19_AtMostOnce /\ [][C19_Step]_vars

\* C19 witness: a run of two cycles ended Done in which the pre-activated
\* id 1 was never started and id 2 was started once.
C19_Witness ==
    /\ pc = "Done"
    /\ i = 2
    /\ pre_active_jobs = <<1>>
    /\ launched = SetToBag({2})

----------------------------------------------------------------------------
\* The COMPLETED test of ids_to_scan[pos] is made with both marker files of
\* the id in the status folder.
BothSeen ==
    /\ pc = "scan_completed"
    /\ comp_name_of(ids_to_scan[pos]) \notin completed_srcs \cup failed_srcs
    /\ status_files = {"COMPLETED", "FAILED"}

C20_Step ==
    /\ BothSeen =>
          /\ completed_srcs' = completed_srcs \cup {comp_name_of(ids_to_scan[pos])}
          /\ failed_srcs' = failed_srcs
          /\ ids_to_scan[pos] \notin Range(remaining_array_ids')
          /\ ids_to_scan[pos] \notin active_ids'
          /\ active_ms' =
                IF ids_to_scan[pos] \in active_ids
                THEN active_ms (-) SetToBag(tgt_ms_of(ids_to_scan[pos]))
                ELSE active_ms
          /\ pc' # "ValueError"
    /\ \A id \in JobIds :
          Completed(id) =>
             /\ Completed(id)'
             /\ ~Failed(id)'
             /\ id \notin active_ids'
             /\ id \notin Range(remaining_array_ids')
             /\ pc' \in {"scan_completed", "scan_failed"} => ids_to_scan'[pos'] # id

\* C20: when both the COMPLETED and the FAILED marker of an id exist at the
\* COMPLETED test that first examines them, the step records the name in
\* completed_srcs only, removes the id from the queue and releases one
\* occurrence of each of its measurement sets if the id was active; a
\* completed name is never added to failed_srcs and its id, in neither the
\* queue nor active_ids, is never examined and so never released again;
\* completed_srcs and failed_srcs are disjoint in every state.
C20_CompletedWins ==
    /\ [](completed_srcs \cap failed_srcs = {})
    /\ [][C20_Step]_vars

\* C20 witness: the last test of the first loop found both markers of a
\* started job, which is now completed and not failed, with its measurement
\* sets released.
C20_Witness ==
    /\ pc = "scan_start"
    /\ pos = 1
    /\ status_files = {"COMPLETED", "FAILED"}
    /\ LET id == ids_to_scan[Len(ids_to_scan)]
       IN  /\ Completed(id)
           /\ ~Failed(id)
           /\ CopiesIn(id, launched) = 1
           /\ id \notin active_ids
           /\ id \notin Range(remaining_array_ids)
           /\ active_ms = ms_of_set(active_ids)
====
